---------------------------- MODULE Spec2Model ----------------------------
(***************************************************************************)
(* A model of the symbolic-expression core of exprtk: exact rationals      *)
(* (FieldOfFractions over MPi), the expression tree, the order             *)
(* cmp_expression and the automatic simplifier (class Simplifier).         *)
(*                                                                         *)
(* Expressions are records [kind, value, name, children]; a rational is a  *)
(* pair <<num, denom>>.  A C++ exception leaving the simplifier is the     *)
(* distinguished value Thrown.                                             *)
(***************************************************************************)
EXTENDS Integers, Sequences, FiniteSets, TLC

VARIABLES
    expr,     \* the tree handed to Simplifier::automatic_simplify
    res,      \* the tree it returned (NoExpr before the call)
    res2,     \* the result of simplifying res once more (NoExpr before)
    pc,       \* "input", "simplified", "again"; "cmp", "compared"
    liketerm, \* the term t of a sum of like terms (NoExpr otherwise)
    coeffs,   \* the coefficients of that sum, as <<form, value>> pairs
    args,     \* the trees handed to cmp_expression or to main (<<>> otherwise)
    ords,     \* ords[i, j] is cmp_expression(args[i], args[j])
    stdout    \* the lines written to the standard output, oldest first

vars == <<expr, res, res2, pc, liketerm, coeffs, args, ords, stdout>>

\* The sequence f, with its elements computed once
SeqOf(f) == <<>> \o f

(***************************************************************************)
(* Big integers (include/math/mpi.hpp)                                     *)
(***************************************************************************)
Abs(a) == IF a < 0 THEN -a ELSE a

\* math::impl::sign<MPi>: mpz_sgn
Sign(a) == IF a < 0 THEN -1 ELSE IF a = 0 THEN 0 ELSE 1

\* MPi::operator/= : mpz_tdiv_q, the quotient rounded toward zero
TDivQ(a, b) == Sign(a) * Sign(b) * (Abs(a) \div Abs(b))

\* MPi::operator%= : mpz_tdiv_r, the remainder of the division rounded
\* toward zero
TDivR(a, b) == a - TDivQ(a, b) * b

\* The operators +, -, *, / and % of MPi on lhs and rhs, in the three forms
\* of their operands: both MPi, MPi with a signed machine integer T, and T
\* with MPi.  The T overloads of +=, -=, *= add, subtract and multiply a
\* magnitude by the sign of their operand; those of / and T % MPi convert
\* the machine integer with MPi(value).
MPiOperator(form, op, lhs, rhs) ==
    CASE op = "+" -> lhs + rhs
      [] op = "-" -> IF form = "T_MPi" THEN rhs - lhs ELSE lhs - rhs
      [] op = "*" -> lhs * rhs
      [] op = "/" -> TDivQ(lhs, rhs)
      [] op = "%" ->
            IF form = "MPi_T"
            THEN IF rhs < 0 THEN -TDivR(lhs, -rhs) ELSE TDivR(lhs, rhs)
            ELSE TDivR(lhs, rhs)

\* math::impl::gcd<MPi, MPi>: mpz_gcd, always non-negative
RECURSIVE GcdNat(_, _)
GcdNat(a, b) == IF b = 0 THEN a ELSE GcdNat(b, a % b)

Gcd(a, b) == GcdNat(Abs(a), Abs(b))

\* math::impl::pow<MPi, MPi>: square-and-multiply; 0 for a negative exponent.
\* The squaring of base after the last multiplication is skipped here: its
\* value is never read.
RECURSIVE MPiPowLoop(_, _, _)
MPiPowLoop(base, exp, ret) ==
    IF exp <= 0 THEN ret
    ELSE IF exp % 2 = 0 THEN MPiPowLoop(base * base, exp \div 2, ret)
    ELSE IF exp = 1 THEN ret * base
    ELSE MPiPowLoop(base * base, exp \div 2, ret * base)

MPiPow(base, exp) == IF exp < 0 THEN 0 ELSE MPiPowLoop(base, exp, 1)

(***************************************************************************)
(* Exact rationals: FieldOfFractions<MPi>                                  *)
(***************************************************************************)
\* FieldOfFractions::simplify_fraction
simplify_fraction(n, d) ==
    LET g  == Gcd(n, d)
        n1 == TDivQ(n, g)
        d1 == TDivQ(d, g)
    IN  <<n1 * Sign(d1), d1 * Sign(d1)>>

\* FieldOfFractions(num, denom): the constructor normalizes
Frac(n, d) == simplify_fraction(n, d)

\* operator+= / operator+
FracAdd(a, b) == simplify_fraction(a[1] * b[2] + b[1] * a[2], a[2] * b[2])

\* operator-= / operator-
FracSub(a, b) == simplify_fraction(a[1] * b[2] - b[1] * a[2], a[2] * b[2])

\* operator/= / operator/
FracDiv(a, b) == simplify_fraction(a[1] * b[2], a[2] * b[1])

\* operator*= / operator*
FracMul(a, b) == simplify_fraction(a[1] * b[1], a[2] * b[2])

\* operator<=> : cross-multiplied comparison, -1 / 0 / 1
Ord(a, b) == IF a < b THEN -1 ELSE IF a = b THEN 0 ELSE 1

FracCmp(a, b) == Ord(a[1] * b[2], b[1] * a[2])

\* operator==
FracEq(a, b) == FracCmp(a, b) = 0

\* math::impl::is_integer<FieldOfFractions<T>>
FracIsInteger(a) == a[2] = 1

\* math::impl::pow<FieldOfFractions<T>, T>: integer exponent
FracPowInt(base, exponent) ==
    IF exponent < 0
    THEN Frac(MPiPow(base[2], -exponent), MPiPow(base[1], -exponent))
    ELSE Frac(MPiPow(base[1], exponent), MPiPow(base[2], exponent))

\* math::impl::pow<FieldOfFractions<T>, FieldOfFractions<T>>: the power in a
\* sequence of length one, or the empty sequence when the exponent is not
\* an integer and std::runtime_error("Invalid arguments to pow.") is thrown
FracPow(base, exponent) ==
    IF FracIsInteger(exponent) THEN <<FracPowInt(base, exponent[1])>> ELSE <<>>

(***************************************************************************)
(* Expression tree (include/symbolic/expression.hpp)                       *)
(***************************************************************************)
\* enum class Kind : int, the tag that cmp_kind compares
KindTag(k) ==
    CASE k = "Number"    -> 0
      [] k = "ProdOp"    -> 1
      [] k = "PowOp"     -> 2
      [] k = "SumOp"     -> 3
      [] k = "Function"  -> 4
      [] k = "Symbol"    -> 5
      [] k = "Undefined" -> 6

Number(v) == [kind |-> "Number", value |-> v, name |-> "", children |-> <<>>]

Symbol(n) == [kind |-> "Symbol", value |-> <<0, 1>>, name |-> n, children |-> <<>>]

Sum(cs) == [kind |-> "SumOp", value |-> <<0, 1>>, name |-> "", children |-> cs]

Product(cs) == [kind |-> "ProdOp", value |-> <<0, 1>>, name |-> "", children |-> cs]

Power(b, e) == [kind |-> "PowOp", value |-> <<0, 1>>, name |-> "", children |-> <<b, e>>]

Function(n, cs) == [kind |-> "Function", value |-> <<0, 1>>, name |-> n, children |-> cs]

Undefined == [kind |-> "Undefined", value |-> <<0, 1>>, name |-> "", children |-> <<>>]

\* A std::runtime_error that leaves the simplifier: no tree is returned.
Thrown == [kind |-> "Thrown", value |-> <<0, 1>>, name |-> "", children |-> <<>>]

\* The value of res and res2 before the call that sets them.
NoExpr == [kind |-> "None", value |-> <<0, 1>>, name |-> "", children |-> <<>>]

Int2Num(n) == Number(Frac(n, 1))

\* The names the model uses, in the order of std::string's operator<=>
NameOrder == <<"diff", "f", "g", "x", "y", "z">>

NameRank(n) == CHOOSE i \in 1..Len(NameOrder) : NameOrder[i] = n

\* std::string operator<=> on two names
NameCmp(a, b) == Ord(NameRank(a), NameRank(b))

(***************************************************************************)
(* SimplificationContext predicates (symbolic/simplify.hpp)                *)
(***************************************************************************)
is_number(t) == t.kind = "Number"

is_one(t) == is_number(t) /\ FracEq(t.value, Frac(1, 1))

is_zero(t) == is_number(t) /\ FracEq(t.value, Frac(0, 1))

is_integral(t) == is_number(t) /\ FracIsInteger(t.value)

\* is_constant(t, {v}): t does not mention the symbol named v
RECURSIVE is_constant(_, _)
is_constant(t, v) ==
    CASE t.kind = "Number" -> TRUE
      [] t.kind = "Symbol" -> t.name # v
      [] t.kind \in {"Function", "SumOp", "ProdOp", "PowOp"} ->
            \A i \in 1..Len(t.children) : is_constant(t.children[i], v)
      [] OTHER -> FALSE

(***************************************************************************)
(* The order on expressions (src/symbolic/compare.cpp, compare.hpp)        *)
(***************************************************************************)
\* cmp_kind with the kinds never found out of order, so that cmp_expression
\* never swaps its arguments.
cmp_kind_never(a, b) == -1

cmp_kind(a, b) == Ord(KindTag(a), KindTag(b))

RECURSIVE cmp_expression(_, _)
RECURSIVE cmp_list_from(_, _, _)

\* cmp_expression_list, its loop from step k on: the lists are walked from
\* the right for min(|lhs|, |rhs|) steps, then the sizes decide.
cmp_list_from(lhs, rhs, k) ==
    LET N == IF Len(lhs) < Len(rhs) THEN Len(lhs) ELSE Len(rhs)
    IN  IF k >= N THEN Ord(Len(lhs), Len(rhs))
        ELSE LET v == cmp_expression(lhs[Len(lhs) - k], rhs[Len(rhs) - k])
             IN  IF v # 0 THEN v ELSE cmp_list_from(lhs, rhs, k + 1)

cmp_expression_list(lhs, rhs) == cmp_list_from(lhs, rhs, 0)

cmp_expression(lhs, rhs) ==
    IF cmp_kind(lhs.kind, rhs.kind) > 0 THEN -cmp_expression(rhs, lhs)
    ELSE CASE lhs.kind = "Number" ->
                IF rhs.kind = "Number" THEN FracCmp(lhs.value, rhs.value) ELSE -1
           [] lhs.kind = "ProdOp" ->
                IF rhs.kind = "ProdOp"
                THEN cmp_expression_list(lhs.children, rhs.children)
                ELSE cmp_expression_list(lhs.children, <<rhs>>)
           [] lhs.kind = "PowOp" ->
                IF rhs.kind = "PowOp"
                THEN LET c == cmp_expression(lhs.children[1], rhs.children[1])
                     IN  IF c = 0
                         THEN cmp_expression(lhs.children[2], rhs.children[2])
                         ELSE c
                ELSE LET c == cmp_expression(lhs.children[1], rhs)
                     IN  IF c = 0
                         THEN cmp_expression(lhs.children[2], Int2Num(1))
                         ELSE c
           [] lhs.kind = "SumOp" ->
                IF rhs.kind = "SumOp"
                THEN cmp_expression_list(lhs.children, rhs.children)
                ELSE cmp_expression_list(lhs.children, <<rhs>>)
           [] lhs.kind = "Function" ->
                IF rhs.kind = "Function"
                THEN LET c == NameCmp(lhs.name, rhs.name)
                     IN  IF c = 0
                         THEN cmp_expression_list(lhs.children, rhs.children)
                         ELSE c
                ELSE cmp_expression_list(lhs.children, <<rhs>>)
           [] lhs.kind = "Symbol" ->
                IF rhs.kind = "Symbol" THEN NameCmp(lhs.name, rhs.name) ELSE -1
           [] lhs.kind = "Undefined" ->
                IF rhs.kind = "Undefined" THEN 0 ELSE -1

\* cmp_base: the bases of two factors compared
cmp_base(lhs, rhs) ==
    IF lhs.kind = "PowOp" /\ rhs.kind = "PowOp"
    THEN cmp_expression(lhs.children[1], rhs.children[1])
    ELSE IF lhs.kind = "PowOp" THEN cmp_expression(lhs.children[1], rhs)
    ELSE IF rhs.kind = "PowOp" THEN cmp_expression(lhs, rhs.children[1])
    ELSE cmp_expression(lhs, rhs)

\* Product::term / ExpressionBase::term
term(x) ==
    IF x.kind = "ProdOp" /\ x.children[1].kind = "Number"
    THEN Product(Tail(x.children))
    ELSE x

\* unpack_term: <<c, t>> with c a Number and c*t == val
unpack_term(val) ==
    IF val.kind = "ProdOp" /\ val.children[1].kind = "Number"
    THEN <<val.children[1], Product(Tail(val.children))>>
    ELSE <<Int2Num(1), val>>

\* unpack_power: <<b, e>> with b^e == val
unpack_power(val) ==
    IF val.kind = "PowOp" THEN <<val.children[1], val.children[2]>>
    ELSE <<val, Int2Num(1)>>

(***************************************************************************)
(* Printing (str of every variant, include/symbolic/compare.hpp; to_string *)
(* of math/rational.hpp and math/mpi.hpp).  A text is a sequence of        *)
(* pieces: one-character strings, names, and NUL for the byte 0.           *)
(***************************************************************************)
NUL == "NUL"

DigitChar == <<"0", "1", "2", "3", "4", "5", "6", "7", "8", "9">>

\* The decimal digits of n >= 0, as mpz_get_str writes them
RECURSIVE Digits(_)
Digits(n) ==
    IF n < 10 THEN <<DigitChar[n + 1]>>
    ELSE Digits(n \div 10) \o <<DigitChar[(n % 10) + 1]>>

\* The number of binary digits of n >= 0
RECURSIVE Bits(_)
Bits(n) == IF n = 0 THEN 0 ELSE 1 + Bits(n \div 2)

\* mpz_sizeinbase(v, 10) for n = |v|: the number of decimal digits, or one
\* more; it is computed from the number of bits.
sizeinbase10(n) == IF n = 0 THEN 1 ELSE (Bits(n) * 30103) \div 100000 + 1

\* to_string(MPi): the string is resized to sizeinbase + 1 characters and
\* mpz_get_str writes the sign and the digits at its front; the characters
\* after them stay bytes 0 and belong to the string.
MPi_to_string(v) ==
    LET digits == (IF v < 0 THEN <<"-">> ELSE <<>>) \o Digits(Abs(v))
    IN  digits \o [i \in 1..(sizeinbase10(Abs(v)) + 1 - Len(digits)) |-> NUL]

\* to_string(FieldOfFractions)
Frac_to_string(f) ==
    IF f[2] = 1 THEN MPi_to_string(f[1])
    ELSE MPi_to_string(f[1]) \o <<"/">> \o MPi_to_string(f[2])

precedence(k) ==
    CASE k = "SumOp"  -> 1
      [] k = "ProdOp" -> 2
      [] k = "PowOp"  -> 3
      [] OTHER        -> 2147483647

RECURSIVE str(_)

\* ExpressionBase::maybe_brace, called on the node p for its child x
maybe_brace(p, x) ==
    IF precedence(x.kind) < precedence(p.kind)
    THEN <<"(">> \o str(x) \o <<")">>
    ELSE str(x)

\* Sum::str, its loop from child i on with ret built so far
RECURSIVE Sum_str_from(_, _, _)
Sum_str_from(e, i, ret) ==
    IF i > Len(e.children) THEN ret
    ELSE LET s == maybe_brace(e, e.children[i])
         IN  Sum_str_from(e, i + 1,
                IF ret = <<>> THEN s
                ELSE IF s # <<>> /\ s[1] = "-" THEN ret \o s
                ELSE ret \o <<"+">> \o s)

\* Product::str, its loop from child i on with ret built so far
RECURSIVE Product_str_from(_, _, _)
Product_str_from(e, i, ret) ==
    IF i > Len(e.children) THEN ret
    ELSE LET y == e.children[i]
         IN  Product_str_from(e, i + 1,
                IF ret = <<>>
                THEN IF y.kind = "Number" /\ FracEq(y.value, Frac(-1, 1))
                     THEN <<"-">>
                     ELSE maybe_brace(e, y)
                ELSE ret \o <<"*">> \o maybe_brace(e, y))

\* Function::str, the loop over its arguments
RECURSIVE Function_str_from(_, _, _)
Function_str_from(e, i, arg_str) ==
    IF i > Len(e.children) THEN arg_str
    ELSE Function_str_from(e, i + 1,
            IF arg_str = <<>> THEN str(e.children[i])
            ELSE arg_str \o <<",", " ">> \o str(e.children[i]))

str(e) ==
    CASE e.kind = "Number"    -> Frac_to_string(e.value)
      [] e.kind = "Symbol"    -> <<e.name>>
      [] e.kind = "SumOp"     -> Sum_str_from(e, 1, <<>>)
      [] e.kind = "ProdOp"    -> Product_str_from(e, 1, <<>>)
      [] e.kind = "PowOp"     ->
            maybe_brace(e, e.children[1]) \o <<"^">> \o maybe_brace(e, e.children[2])
      [] e.kind = "Function"  ->
            <<e.name, "(">> \o Function_str_from(e, 1, <<>>) \o <<")">>
      [] e.kind = "Undefined" -> <<"<Undefined>">>

(***************************************************************************)
(* Simplifier helpers (src/symbolic/compare.cpp, second half)              *)
(***************************************************************************)
\* assoc_expand<k>, from child i on: a child of kind k is replaced by its
\* own children (one level).
RECURSIVE assoc_expand_from(_, _, _)
assoc_expand_from(k, cs, i) ==
    IF i > Len(cs) THEN <<>>
    ELSE (IF cs[i].kind = k THEN cs[i].children ELSE <<cs[i]>>)
            \o assoc_expand_from(k, cs, i + 1)

assoc_expand(k, cs) == assoc_expand_from(k, cs, 1)

\* The comparator handed to std::sort
sort_less(lhs, rhs) == cmp_expression(lhs, rhs) < 0

\* std::sort on fewer than 16 elements is libstdc++'s insertion sort: val
\* goes to the front when it is less than the first element, else it is
\* shifted left past every element it is less than.
RECURSIVE linear_insert(_, _)
linear_insert(sorted, val) ==
    IF sort_less(val, sorted[Len(sorted)])
    THEN linear_insert(SubSeq(sorted, 1, Len(sorted) - 1), val)
            \o <<sorted[Len(sorted)]>>
    ELSE sorted \o <<val>>

RECURSIVE insertion_sort_from(_, _, _)
insertion_sort_from(cs, i, sorted) ==
    IF i > Len(cs) THEN sorted
    ELSE insertion_sort_from(cs, i + 1,
            IF sort_less(cs[i], sorted[1]) THEN <<cs[i]>> \o sorted
            ELSE linear_insert(sorted, cs[i]))

sort_subexpressions(cs) ==
    IF Len(cs) <= 1 THEN cs ELSE insertion_sort_from(cs, 2, <<cs[1]>>)

\* The simplifier's procedures call one another on trees they have just
\* built: simplify_node(e) is the procedure for the kind of e, which is the
\* one the code names at each such call.
RECURSIVE automatic_simplify_impl(_)
RECURSIVE simplify_node(_)
RECURSIVE combine_from(_, _, _, _)

\* A merge lambda for automatic_simplify_sum that merges nothing
sum_combine_none(lhs, rhs) == <<lhs, rhs>>

\* The merge lambda of automatic_simplify_sum: what it writes in place of
\* the pair lhs, rhs (no, one or two trees).
sum_combine(lhs, rhs) ==
    IF is_number(lhs) /\ is_number(rhs)
    THEN LET v == FracAdd(lhs.value, rhs.value)
         IN  IF ~FracEq(v, Frac(0, 1)) THEN <<Number(v)>> ELSE <<>>
    ELSE IF is_zero(lhs) THEN <<rhs>>
    ELSE IF is_zero(rhs) THEN <<lhs>>
    ELSE IF cmp_expression(term(lhs), term(rhs)) = 0
    THEN LET l == unpack_term(lhs)
             r == unpack_term(rhs)
             new_constant == simplify_node(Sum(<<l[1], r[1]>>))
             new_factor == simplify_node(Product(<<new_constant, l[2]>>))
         IN  IF ~is_zero(new_factor) THEN <<new_factor>> ELSE <<>>
    ELSE <<lhs, rhs>>

\* The merge lambda of automatic_simplify_product
product_combine(lhs, rhs) ==
    IF is_number(lhs) /\ is_number(rhs)
    THEN LET v == FracMul(lhs.value, rhs.value)
         IN  IF ~FracEq(v, Frac(1, 1)) THEN <<Number(v)>> ELSE <<>>
    ELSE IF is_one(lhs) THEN <<rhs>>
    ELSE IF is_one(rhs) THEN <<lhs>>
    ELSE IF cmp_base(lhs, rhs) = 0
    THEN LET l == unpack_power(lhs)
             r == unpack_power(rhs)
             new_exponent == simplify_node(Sum(<<l[2], r[2]>>))
             new_factor == simplify_node(Power(l[1], new_exponent))
         IN  IF ~is_one(new_factor) THEN <<new_factor>> ELSE <<>>
    ELSE <<lhs, rhs>>

\* combine_subexpressions, from the read position i on, with the output
\* prefix out: the last tree written and the tree read are handed to the
\* merge lambda of kind k, and what it writes replaces the last tree.
combine_from(k, cs, i, out) ==
    IF i > Len(cs) THEN out
    ELSE IF out = <<>> THEN combine_from(k, cs, i + 1, <<cs[i]>>)
    ELSE combine_from(k, cs, i + 1,
            SubSeq(out, 1, Len(out) - 1)
                \o (IF k = "SumOp" THEN sum_combine(out[Len(out)], cs[i])
                    ELSE product_combine(out[Len(out)], cs[i])))

combine_subexpressions(k, cs) == combine_from(k, cs, 1, <<>>)

(***************************************************************************)
(* Simplifier                                                              *)
(***************************************************************************)
\* automatic_simplify_sum without the return of a single child
automatic_simplify_sum_nocollapse(e) ==
    LET cs == combine_subexpressions("SumOp",
                  sort_subexpressions(assoc_expand("SumOp", e.children)))
    IN  IF Len(cs) = 0 THEN Int2Num(0) ELSE Sum(cs)

\* The return of automatic_simplify_sum for the subexpressions cs that
\* combine_subexpressions left
sum_of(cs) ==
    IF Len(cs) = 0 THEN Int2Num(0)
    ELSE IF Len(cs) = 1 THEN cs[1]
    ELSE Sum(cs)

automatic_simplify_sum(e) ==
    sum_of(combine_subexpressions("SumOp",
               sort_subexpressions(assoc_expand("SumOp", e.children))))

\* The return of automatic_simplify_product for the subexpressions cs that
\* combine_subexpressions left
product_of(cs) ==
    IF Len(cs) = 0 THEN Int2Num(1)
    ELSE IF Len(cs) = 1 THEN cs[1]
    ELSE Product(cs)

automatic_simplify_product(e) ==
    product_of(combine_subexpressions("ProdOp",
                   sort_subexpressions(assoc_expand("ProdOp", e.children))))

\* automatic_simplify_integer_power with none of its rules: the Power is
\* returned as it came.
automatic_simplify_integer_power_unevaluated(t) == t

automatic_simplify_integer_power(t) ==
    LET b == t.children[1]
        e == t.children[2]
    IN  IF is_zero(e) THEN Int2Num(1)
        ELSE IF is_one(e) THEN b
        ELSE IF b.kind = "Number"
        THEN LET v == FracPow(b.value, e.value)
             IN  IF v = <<>> THEN Thrown ELSE Number(v[1])
        ELSE IF b.kind = "PowOp"
        THEN LET new_exponent ==
                    simplify_node(Product(<<b.children[1], e>>))
             IN  simplify_node(Power(b.children[2], new_exponent))
        ELSE IF b.kind = "ProdOp"
        THEN simplify_node(Product(SeqOf(
                [i \in 1..Len(b.children) |->
                    simplify_node(Power(b.children[i], e))])))
        ELSE Power(b, e)

\* automatic_simplify_power with a zero base giving 0 for every Number
\* exponent, the zero and the negative ones included.
automatic_simplify_power_zero_always(t) ==
    LET b == t.children[1]
        e == t.children[2]
    IN  IF is_zero(b) THEN (IF e.kind = "Number" THEN Int2Num(0) ELSE t)
        ELSE IF is_one(b) THEN Int2Num(1)
        ELSE IF is_integral(e) THEN automatic_simplify_integer_power(t)
        ELSE t

\* automatic_simplify_power without the is_integral guard: every Number
\* exponent is handed to automatic_simplify_integer_power.
automatic_simplify_power_unguarded(t) ==
    LET b == t.children[1]
        e == t.children[2]
    IN  IF is_zero(b)
        THEN IF e.kind = "Number"
             THEN IF FracCmp(e.value, Frac(0, 1)) > 0 THEN Int2Num(0)
                  ELSE IF FracEq(e.value, Frac(0, 1)) THEN Int2Num(1)
                  ELSE Undefined
             ELSE t
        ELSE IF is_one(b) THEN Int2Num(1)
        ELSE IF is_number(e) THEN automatic_simplify_integer_power(t)
        ELSE t

automatic_simplify_power(t) ==
    LET b == t.children[1]
        e == t.children[2]
    IN  IF is_zero(b)
        THEN IF e.kind = "Number"
             THEN IF FracCmp(e.value, Frac(0, 1)) > 0 THEN Int2Num(0)
                  ELSE IF FracEq(e.value, Frac(0, 1)) THEN Int2Num(1)
                  ELSE Undefined
             ELSE t
        ELSE IF is_one(b) THEN Int2Num(1)
        ELSE IF is_integral(e) THEN automatic_simplify_integer_power(t)
        ELSE t

\* Whether one of the calls that produced cs ended with an exception
AnyThrown(cs) == \E i \in 1..Len(cs) : cs[i] = Thrown

\* simplify_differentiation: x is Function "diff" with simplified arguments
simplify_differentiation(x) ==
    IF Len(x.children) # 2 THEN Thrown
    ELSE LET e == x.children[1]
             var == x.children[2]
         IN
         IF var.kind # "Symbol" THEN Thrown
         ELSE CASE e.kind = "Symbol" ->
                    IF cmp_expression(e, var) = 0 THEN Int2Num(1) ELSE Int2Num(0)
                [] e.kind = "Number" -> Int2Num(0)
                [] e.kind = "PowOp" ->
                    LET base == unpack_power(e)[1]
                        exp  == unpack_power(e)[2]
                    IN  IF is_constant(exp, var.name)
                        THEN LET factors == <<
                                    exp,
                                    simplify_node(Power(base,
                                        simplify_node(
                                            Sum(<<exp, Int2Num(-1)>>)))),
                                    simplify_node(
                                        Function("diff", <<base, var>>)) >>
                             IN  IF AnyThrown(factors) THEN Thrown
                                 ELSE simplify_node(Product(factors))
                        ELSE Thrown
                [] e.kind = "ProdOp" ->
                    LET factors == e.children
                        new_factors(d) ==
                            SeqOf([i \in 1..Len(factors) |->
                                IF i = d
                                THEN simplify_node(
                                        Function("diff", <<factors[i], var>>))
                                ELSE factors[i]])
                        summands ==
                            SeqOf([d \in 1..Len(factors) |->
                                LET fs == new_factors(d)
                                IN  IF AnyThrown(fs) THEN Thrown
                                    ELSE simplify_node(Product(fs))])
                    IN  IF AnyThrown(summands) THEN Thrown
                        ELSE simplify_node(Sum(summands))
                [] e.kind = "SumOp" ->
                    simplify_node(Sum(
                        [i \in 1..Len(e.children) |->
                            Function("diff", <<e.children[i], var>>)]))
                [] e.kind = "Function" -> Function("diff", <<e, var>>)
                [] OTHER -> Undefined

automatic_simplify_function(x) ==
    IF x.name = "diff" THEN simplify_differentiation(x) ELSE x

\* The switch of automatic_simplify_impl on the kind of e
simplify_node(e) ==
    CASE e.kind = "Function" -> automatic_simplify_function(e)
      [] e.kind = "PowOp"    -> automatic_simplify_power(e)
      [] e.kind = "ProdOp"   -> automatic_simplify_product(e)
      [] e.kind = "SumOp"    -> automatic_simplify_sum(e)
      [] OTHER               -> e

\* simplify_subexpressions: every child replaced by its simplified form
simplify_subexpressions(e) ==
    [e EXCEPT !.children =
        SeqOf([i \in 1..Len(e.children) |-> automatic_simplify_impl(e.children[i])])]

automatic_simplify_impl(e) ==
    LET s == simplify_subexpressions(e)
    IN  IF AnyThrown(s.children) THEN Thrown
        ELSE simplify_node(s)

\* Simplifier::automatic_simplify, the entry point
automatic_simplify(x) == automatic_simplify_impl(x)

(***************************************************************************)
(* What the simplifier writes to the standard output: the product rule of  *)
(* simplify_differentiation prints the repr of every factor, each followed *)
(* by ", ", and then a line end.  One text per fmt::print call, in the     *)
(* order of the calls; a call that ends with an exception keeps what was   *)
(* written before it.                                                      *)
(***************************************************************************)
RECURSIVE repr(_)
\* The loop of Sum::repr, Product::repr, Power::repr and Function::repr
RECURSIVE repr_from(_, _, _)
repr_from(cs, i, acc) ==
    IF i > Len(cs) THEN acc
    ELSE IF acc = <<>> THEN repr_from(cs, i + 1, repr(cs[i]))
    ELSE repr_from(cs, i + 1, acc \o <<",", " ">> \o repr(cs[i]))

repr(e) ==
    CASE e.kind = "Number"   -> Frac_to_string(e.value)
      [] e.kind = "Symbol"   -> <<e.name>>
      [] e.kind = "SumOp"    -> <<"Sum", "(">> \o repr_from(e.children, 1, <<>>) \o <<")">>
      [] e.kind = "ProdOp"   -> <<"Product", "(">> \o repr_from(e.children, 1, <<>>) \o <<")">>
      [] e.kind = "PowOp"    -> <<"Power", "(">> \o repr_from(e.children, 1, <<>>) \o <<")">>
      [] e.kind = "Function" ->
            <<"Function", "(", e.name, ")", "(">>
                \o repr_from(e.children, 1, <<>>) \o <<")">>
      [] OTHER               -> <<"<Undefined>">>

RECURSIVE function_output(_)
\* The texts of the calls of automatic_simplify_function on xs[i], xs[i+1],
\* ... in turn, up to the first call that ends with an exception
RECURSIVE outputs_from(_, _)
outputs_from(xs, i) ==
    IF i > Len(xs) THEN <<>>
    ELSE IF simplify_node(xs[i]) = Thrown THEN function_output(xs[i])
    ELSE function_output(xs[i]) \o outputs_from(xs, i + 1)

\* What automatic_simplify_function writes for x, a Function whose
\* arguments are simplified
function_output(x) ==
    IF x.kind # "Function" \/ x.name # "diff" THEN <<>>
    ELSE IF Len(x.children) # 2 THEN <<>>
    ELSE LET e == x.children[1]
             var == x.children[2]
         IN
         IF var.kind # "Symbol" THEN <<>>
         ELSE CASE e.kind = "PowOp" ->
                    LET base == unpack_power(e)[1]
                        exp  == unpack_power(e)[2]
                    IN  IF is_constant(exp, var.name)
                        THEN function_output(Function("diff", <<base, var>>))
                        ELSE <<>>
                [] e.kind = "ProdOp" ->
                    LET factors == e.children
                    IN  [i \in 1..Len(factors) |-> repr(factors[i]) \o <<",", " ">>]
                            \o << <<"\n">> >>
                            \o outputs_from(
                                  [i \in 1..Len(factors) |->
                                      Function("diff", <<factors[i], var>>)], 1)
                [] OTHER -> <<>>

\* What the procedure for the kind of s writes, s being an expression whose
\* subexpressions automatic_simplify_impl has simplified; nothing when one
\* of them ended with an exception
visit_output(s) ==
    IF AnyThrown(s.children) THEN <<>> ELSE function_output(s)

RECURSIVE automatic_simplify_output(_)
\* The texts of automatic_simplify_impl on es[i], es[i+1], ... in turn, up
\* to the first call that ends with an exception
RECURSIVE subexpressions_output(_, _)
subexpressions_output(es, i) ==
    IF i > Len(es) THEN <<>>
    ELSE IF automatic_simplify_impl(es[i]) = Thrown
         THEN automatic_simplify_output(es[i])
    ELSE automatic_simplify_output(es[i]) \o subexpressions_output(es, i + 1)

\* What a call of automatic_simplify on e writes
automatic_simplify_output(e) ==
    subexpressions_output(e.children, 1)
        \o visit_output(simplify_subexpressions(e))

(***************************************************************************)
(* The calls of the simplifier.  A call is <<"impl", t>>, a call of         *)
(* automatic_simplify_impl on t, or <<"node", t>>, a call of the procedure  *)
(* for the kind of t (automatic_simplify_sum, _product, _power or           *)
(* _function) on t.  direct_calls lists, in their order, the calls that a   *)
(* call makes itself; a call that ends with an exception is the last one.   *)
(***************************************************************************)
\* The calls of the merge lambda of automatic_simplify_sum (k = "SumOp") or
\* automatic_simplify_product on lhs and rhs
lambda_calls(k, lhs, rhs) ==
    IF is_number(lhs) /\ is_number(rhs) THEN <<>>
    ELSE IF k = "SumOp"
    THEN IF is_zero(lhs) \/ is_zero(rhs) THEN <<>>
         ELSE IF cmp_expression(term(lhs), term(rhs)) = 0
         THEN << <<"node", Sum(<<unpack_term(lhs)[1], unpack_term(rhs)[1]>>)>>,
                 <<"node", Product(<<
                    simplify_node(Sum(<<unpack_term(lhs)[1], unpack_term(rhs)[1]>>)),
                    unpack_term(lhs)[2]>>)>> >>
         ELSE <<>>
    ELSE IF is_one(lhs) \/ is_one(rhs) THEN <<>>
         ELSE IF cmp_base(lhs, rhs) = 0
         THEN << <<"node", Sum(<<unpack_power(lhs)[2], unpack_power(rhs)[2]>>)>>,
                 <<"node", Power(unpack_power(lhs)[1],
                    simplify_node(Sum(<<unpack_power(lhs)[2], unpack_power(rhs)[2]>>)))>> >>
         ELSE <<>>

\* A call that calls itself again on the tree it was given
direct_calls_again(frame) == <<frame>>

\* simplify_subexpressions: automatic_simplify_impl on es[i], es[i+1], ...
RECURSIVE children_calls(_, _)
children_calls(es, i) ==
    IF i > Len(es) THEN <<>>
    ELSE IF automatic_simplify_impl(es[i]) = Thrown THEN << <<"impl", es[i]>> >>
    ELSE << <<"impl", es[i]>> >> \o children_calls(es, i + 1)

\* The switch of automatic_simplify_impl on s, whose subexpressions are
\* simplified
visit_calls(s) ==
    IF AnyThrown(s.children)
          \/ s.kind \notin {"Function", "PowOp", "ProdOp", "SumOp"}
    THEN <<>>
    ELSE << <<"node", s>> >>

\* combine_subexpressions: the merge lambda on the last tree written (of
\* out) and the tree read, c
last_calls(k, out, c) ==
    IF out = <<>> THEN <<>> ELSE lambda_calls(k, out[Len(out)], c)

\* automatic_simplify_sum, automatic_simplify_product: the calls of
\* combine_subexpressions reading cs[i], cs[i+1], ...
RECURSIVE merge_calls(_, _, _)
merge_calls(k, cs, i) ==
    IF i > Len(cs) THEN <<>>
    ELSE last_calls(k, combine_subexpressions(k, SubSeq(cs, 1, i - 1)), cs[i])
            \o merge_calls(k, cs, i + 1)

\* automatic_simplify_power and automatic_simplify_integer_power on b ^ e
power_calls(b, e) ==
    IF is_zero(b) \/ is_one(b) \/ ~is_integral(e) THEN <<>>
    ELSE IF is_zero(e) \/ is_one(e) \/ b.kind = "Number" THEN <<>>
    ELSE IF b.kind = "PowOp"
    THEN << <<"node", Product(<<b.children[1], e>>)>>,
            <<"node", Power(b.children[2],
                            simplify_node(Product(<<b.children[1], e>>)))>> >>
    ELSE IF b.kind = "ProdOp"
    THEN [i \in 1..Len(b.children) |-> <<"node", Power(b.children[i], e)>>]
            \o << <<"node", Product(SeqOf(
                    [i \in 1..Len(b.children) |->
                        simplify_node(Power(b.children[i], e))]))>> >>
    ELSE <<>>

\* simplify_differentiation, ProdOp: the factors with factor d differentiated
new_factors(factors, var, d) ==
    SeqOf([i \in 1..Len(factors) |->
        IF i = d THEN simplify_node(Function("diff", <<factors[i], var>>))
        ELSE factors[i]])

\* simplify_differentiation, ProdOp: the loop from factor d on, then the Sum
RECURSIVE product_rule(_, _, _)
product_rule(factors, var, d) ==
    IF d > Len(factors)
    THEN << <<"node", Sum(SeqOf(
                [i \in 1..Len(factors) |->
                    simplify_node(Product(new_factors(factors, var, i)))]))>> >>
    ELSE IF simplify_node(Function("diff", <<factors[d], var>>)) = Thrown
         THEN << <<"node", Function("diff", <<factors[d], var>>)>> >>
    ELSE << <<"node", Function("diff", <<factors[d], var>>)>>,
            <<"node", Product(new_factors(factors, var, d))>> >>
            \o product_rule(factors, var, d + 1)

\* simplify_differentiation, PowOp with a constant exponent: the Product
\* of the exponent, the simplified power and the simplified inner derivative
power_rule_product(exp, power, inner) ==
    IF inner = Thrown THEN <<>>
    ELSE << <<"node", Product(<<exp, power, inner>>)>> >>

\* simplify_differentiation, PowOp: base ^ exp differentiated by var
power_rule(base, exp, var) ==
    IF ~is_constant(exp, var.name) THEN <<>>
    ELSE << <<"node", Sum(<<exp, Int2Num(-1)>>)>>,
            <<"node", Power(base, simplify_node(Sum(<<exp, Int2Num(-1)>>)))>>,
            <<"node", Function("diff", <<base, var>>)>> >>
         \o power_rule_product(exp,
                simplify_node(Power(base, simplify_node(Sum(<<exp, Int2Num(-1)>>)))),
                simplify_node(Function("diff", <<base, var>>)))

\* automatic_simplify_function and simplify_differentiation on diff(e, var)
diff_calls(e, var) ==
    IF var.kind # "Symbol" THEN <<>>
    ELSE CASE e.kind = "PowOp" ->
                power_rule(unpack_power(e)[1], unpack_power(e)[2], var)
           [] e.kind = "ProdOp" -> product_rule(e.children, var, 1)
           [] e.kind = "SumOp" ->
                << <<"node", Sum([i \in 1..Len(e.children) |->
                            Function("diff", <<e.children[i], var>>)])>> >>
           [] OTHER -> <<>>

\* The calls made by the procedure for the kind of t
node_calls(t) ==
    CASE t.kind \in {"SumOp", "ProdOp"} ->
            merge_calls(t.kind,
                        sort_subexpressions(assoc_expand(t.kind, t.children)), 2)
      [] t.kind = "PowOp" -> power_calls(t.children[1], t.children[2])
      [] t.kind = "Function" ->
            IF t.name # "diff" \/ Len(t.children) # 2 THEN <<>>
            ELSE diff_calls(t.children[1], t.children[2])
      [] OTHER -> <<>>

\* The calls that the call frame makes itself, in their order
direct_calls(frame) ==
    IF frame[1] = "impl"
    THEN children_calls(frame[2].children, 1)
            \o visit_calls(simplify_subexpressions(frame[2]))
    ELSE node_calls(frame[2])

(***************************************************************************)
(* The user's interface (symbolic/symbolic.hpp): a Symbolic owns a tree    *)
(* that its constructor simplified.  Thrown stands for a call that ended   *)
(* with an exception.                                                      *)
(***************************************************************************)
\* Symbolic::Symbolic(impl::ExprPtr)
Symbolic(e) == IF e = Thrown THEN Thrown ELSE automatic_simplify(e)

\* operator+(Symbolic, Symbolic)
SymbolicAdd(lhs, rhs) == Symbolic(Sum(<<lhs, rhs>>))

\* operator*(Symbolic, Symbolic)
SymbolicMul(lhs, rhs) == Symbolic(Product(<<lhs, rhs>>))

\* operator/(Symbolic, Symbolic)
SymbolicDiv(lhs, rhs) == Symbolic(Product(<<lhs, Power(rhs, Int2Num(-1))>>))

\* math::pow(Symbolic, Symbolic): the Power is simplified, and the tree
\* returned is converted to the Symbolic result by the constructor.
pow(b, e) == Symbolic(automatic_simplify(Power(b, e)))

\* symb::func(name)(arguments)
func(name, arguments) == Symbolic(Function(name, arguments))

(***************************************************************************)
(* The inputs of the model                                                 *)
(***************************************************************************)
\* Number leaves are the integers -1..MaxNum and the fraction 1/2.
MaxNum == 2

\* The largest number of like terms in a sum of like terms
MaxTerms == 3

NumAtoms ==
    {Number(Frac(n, 1)) : n \in -1..MaxNum} \cup {Number(Frac(1, 2))}

SymAtoms == {Symbol("x"), Symbol("y")}

Atoms == NumAtoms \cup SymAtoms

\* The shapes of a tree over two operands
Shapes == {"leaf", "Sum0", "Sum1", "Sum2", "Product0", "Product1", "Product2",
           "Power", "f", "diff"}

\* The tree of shape k over the operands a and b
Node(k, a, b) ==
    CASE k = "leaf"     -> a
      [] k = "Sum0"     -> Sum(<<>>)
      [] k = "Sum1"     -> Sum(<<a>>)
      [] k = "Sum2"     -> Sum(<<a, b>>)
      [] k = "Product0" -> Product(<<>>)
      [] k = "Product1" -> Product(<<a>>)
      [] k = "Product2" -> Product(<<a, b>>)
      [] k = "Power"    -> Power(a, b)
      [] k = "f"        -> Function("f", <<a>>)
      [] k = "diff"     -> Function("diff", <<a, b>>)

\* The trees of depth at most one
Depth1 == {Node(k, a, b) : k \in Shapes, a \in Atoms, b \in Atoms}

\* The operands of an input: what the Symbolic front end holds after one
\* operation on leaves, every Symbolic being simplified when it is built.
Operands == {automatic_simplify(t) : t \in Depth1} \ {Thrown}

\* A Number that is the exponent of an input is a Number leaf.
PowerInput(k, a, b) == (k = "Power" /\ is_number(b)) => b \in NumAtoms

\* The tree of shape k over three operands and two Numbers
Node3(k, a, b, c, m, n) ==
    CASE k = "Sum3"      -> Sum(<<a, b, c>>)
      [] k = "Product3"  -> Product(<<a, b, c>>)
      [] k = "LikeTerms" -> Sum(<<Product(<<m, a>>), Product(<<n, a>>), c>>)
      [] k = "LikeBases" -> Product(<<Power(a, m), Power(a, n), c>>)

\* The children of a sum of like terms: the term t itself, or a Number times t
CoeffForms == {<<"bare", <<1, 1>>>>} \cup {<<"times", c.value>> : c \in NumAtoms}

LikeChild(t, cf) == IF cf[1] = "bare" THEN t ELSE Product(<<Number(cf[2]), t>>)

LikeSum(t, cs) == Sum(SeqOf([i \in 1..Len(cs) |-> LikeChild(t, cs[i])]))

\* The canonical terms that are no Number: automatic_simplify built them from
\* the Symbols and the Number MaxNum, and leaves them alone.
TermAtoms == SymAtoms \cup {Int2Num(MaxNum)}

Terms ==
    {t \in {automatic_simplify(Node(k, a, b)) : k \in Shapes, a \in TermAtoms, b \in TermAtoms} :
        t.kind \notin {"Number", "Thrown"} /\ automatic_simplify(t) = t}

\* The trees handed to cmp_expression
CmpTrees == Depth1 \cup {Undefined, Function("g", <<Symbol("x")>>)}

\* The arguments of a diff call, and how many of them a call may have
MaxArgs == 3

DiffArgs ==
    Atoms \cup {automatic_simplify(Node(k, Symbol("x"), Symbol("y"))) : k \in Shapes}
          \cup {Undefined}

\* The trees handed to str: two levels over a few leaves
PrintLeaves == {Int2Num(-1), Int2Num(MaxNum), Symbol("x"), Symbol("y")}

PrintOperands == {Node(k, a, b) : k \in Shapes, a \in PrintLeaves, b \in PrintLeaves}

\* The trees whose simplification is followed call by call: they were not
\* simplified before, and are three levels deep.
CallInputs == {Node(k, a, b) : k \in Shapes, a \in PrintOperands, b \in PrintLeaves}

\* The numerators and denominators handed to the rational constructor are
\* the integers -MaxFrac..MaxFrac.
MaxFrac == 3

\* The operands of the big-integer operators are the integers
\* -MaxInt..MaxInt, far from the limits of the machine integer types.
MaxInt == 12

\* The symbols and the numbers of the two main programs
MainSyms == {Symbol(n) : n \in {"x", "y", "z"}}

MainNums == {Int2Num(n) : n \in -1..MaxNum}

\* The trees handed to cmp_expression three at a time
CmpTriples ==
    NumAtoms \cup {Node(k, a, b) : k \in Shapes, a \in SymAtoms, b \in SymAtoms}
             \cup {Undefined, Function("g", <<Symbol("x")>>)}

(***************************************************************************)
(* The state machines.  Spec hands a tree to automatic_simplify and hands  *)
(* the result to it once more; SpecLike hands it a sum of like terms;      *)
(* SpecCmp hands a pair of trees to cmp_expression, in every order.        *)
(***************************************************************************)
NoCmp == args = <<>> /\ ords = <<>>

NoLike == liketerm = NoExpr /\ coeffs = <<>>

Start == res = NoExpr /\ res2 = NoExpr /\ pc = "input" /\ stdout = <<>>

Init ==
    /\ \/ \E k \in Shapes, a \in Operands, b \in Operands :
            PowerInput(k, a, b) /\ expr = Node(k, a, b)
       \/ \E k \in {"Sum3", "Product3"}, a \in Operands, b \in Operands, c \in Atoms :
            expr = Node3(k, a, b, c, c, c)
       \/ \E k \in {"LikeTerms", "LikeBases"}, a \in Operands, c \in Atoms,
             m \in NumAtoms, n \in NumAtoms :
            expr = Node3(k, a, a, c, m, n)
    /\ Start /\ NoLike /\ NoCmp

InitLike ==
    /\ \E t \in Terms, n \in 1..MaxTerms : \E cs \in [1..n -> CoeffForms] :
            /\ liketerm = t
            /\ coeffs = cs
            /\ expr = LikeSum(t, cs)
    /\ Start /\ NoCmp

InitCmp ==
    /\ \E a \in CmpTrees, b \in CmpTrees : args = <<a, b>>
    /\ ords = <<>>
    /\ expr = NoExpr /\ res = NoExpr /\ res2 = NoExpr /\ pc = "cmp" /\ stdout = <<>>
    /\ NoLike

InitCmp3 ==
    /\ \E a \in CmpTriples, b \in CmpTriples, c \in CmpTriples : args = <<a, b, c>>
    /\ ords = <<>>
    /\ expr = NoExpr /\ res = NoExpr /\ res2 = NoExpr /\ pc = "cmp" /\ stdout = <<>>
    /\ NoLike

InitDiff ==
    /\ \E n \in 0..MaxArgs : \E cs \in [1..n -> DiffArgs] :
            expr = Function("diff", cs)
    /\ Start /\ NoLike /\ NoCmp

\* main of the first program: its three symbols and the numbers of its
\* last statement (x, y, z, 2, 1, 2 in the source)
InitMain1 ==
    /\ \E x \in MainSyms, y \in MainSyms, z \in MainSyms,
          m \in MainNums, n \in MainNums, d \in MainNums :
            args = <<x, y, z, m, n, d>>
    /\ ords = <<>> /\ expr = NoExpr /\ res = NoExpr /\ res2 = NoExpr
    /\ pc = "main1" /\ stdout = <<>> /\ NoLike

\* main of the second program: the argument of f, the variable of diff
\* and the exponent (x, x, 101 in the source)
InitMain3 ==
    /\ \E x \in MainSyms, v \in MainSyms, e \in MainNums \cup {Int2Num(101)} :
            args = <<x, v, e>>
    /\ ords = <<>> /\ expr = NoExpr /\ res = NoExpr /\ res2 = NoExpr
    /\ pc = "main3" /\ stdout = <<>> /\ NoLike

\* Two calls of FieldOfFractions(num, denom) about to be made, with their
\* arguments in coeffs
InitFrac ==
    /\ \E n1 \in -MaxFrac..MaxFrac, d1 \in -MaxFrac..MaxFrac,
          n2 \in -MaxFrac..MaxFrac, d2 \in -MaxFrac..MaxFrac :
            coeffs = <<<<n1, d1>>, <<n2, d2>>>>
    /\ liketerm = NoExpr /\ NoCmp
    /\ expr = NoExpr /\ res = NoExpr /\ res2 = NoExpr
    /\ pc = "rational" /\ stdout = <<>>

\* An operator of MPi about to be applied to the operands in args
InitMPi ==
    /\ \E a \in -MaxInt..MaxInt, b \in -MaxInt..MaxInt : args = <<a, b>>
    /\ ords = <<>> /\ NoLike
    /\ expr = NoExpr /\ res = NoExpr /\ res2 = NoExpr
    /\ pc = "mpi" /\ stdout = <<>>

\* Simplifier::automatic_simplify(expr) is entered: args holds the calls
\* that are still to be made, the next one first, and ords the number of
\* steps taken so far, modulo 2.
InitCalls ==
    /\ \E x \in CallInputs : expr = x /\ args = << <<"impl", x>> >>
    /\ ords = <<0>> /\ NoLike
    /\ res = NoExpr /\ res2 = NoExpr /\ pc = "calling" /\ stdout = <<>>

InitPrint ==
    /\ \E k \in Shapes, a \in PrintOperands, b \in PrintOperands :
            expr = Node(k, a, b)
    /\ res = NoExpr /\ res2 = NoExpr /\ pc = "print" /\ stdout = <<>>
    /\ NoLike /\ NoCmp

Simplify ==
    /\ pc = "input"
    /\ res' = automatic_simplify(expr)
    /\ stdout' = stdout \o automatic_simplify_output(expr)
    /\ pc' = "simplified"
    /\ UNCHANGED <<expr, res2, liketerm, coeffs, args, ords>>

SimplifyAgain ==
    /\ pc = "simplified"
    /\ res # Thrown
    /\ res2' = automatic_simplify(res)
    /\ stdout' = stdout \o automatic_simplify_output(res)
    /\ pc' = "again"
    /\ UNCHANGED <<expr, res, liketerm, coeffs, args, ords>>

Compare ==
    /\ pc = "cmp"
    /\ ords' = [i \in 1..Len(args), j \in 1..Len(args) |->
                    cmp_expression(args[i], args[j])]
    /\ pc' = "compared"
    /\ UNCHANGED <<expr, res, res2, liketerm, coeffs, args, stdout>>

\* auto a = (x+y);
Main1Add ==
    /\ pc = "main1"
    /\ res' = SymbolicAdd(args[1], args[2])
    /\ pc' = "main1_sum"
    /\ UNCHANGED <<expr, res2, liketerm, coeffs, args, ords, stdout>>

\* a = a * z;
Main1Mul ==
    /\ pc = "main1_sum" /\ res # Thrown
    /\ res' = SymbolicMul(res, args[3])
    /\ pc' = "main1_a"
    /\ UNCHANGED <<expr, res2, liketerm, coeffs, args, ords, stdout>>

\* fmt::print("{}\n", a);
Main1PrintA ==
    /\ pc = "main1_a" /\ res # Thrown
    /\ stdout' = Append(stdout, str(res))
    /\ pc' = "main1_a_printed"
    /\ UNCHANGED <<expr, res, res2, liketerm, coeffs, args, ords>>

\* auto b = math::pow(math::pow(a, num(2)), num(1)) / num(2);
Main1PowDiv ==
    /\ pc = "main1_a_printed"
    /\ res2' = SymbolicDiv(pow(pow(res, args[4]), args[5]), args[6])
    /\ pc' = "main1_b"
    /\ UNCHANGED <<expr, res, liketerm, coeffs, args, ords, stdout>>

\* fmt::print("{}\n", b);
Main1PrintB ==
    /\ pc = "main1_b" /\ res2 # Thrown
    /\ stdout' = Append(stdout, str(res2))
    /\ pc' = "main1_done"
    /\ UNCHANGED <<expr, res, res2, liketerm, coeffs, args, ords>>

\* auto a = math::pow(f(x), 101);
Main3Pow ==
    /\ pc = "main3"
    /\ res' = pow(func("f", <<args[1]>>), args[3])
    /\ pc' = "main3_a"
    /\ UNCHANGED <<expr, res2, liketerm, coeffs, args, ords, stdout>>

\* fmt::print("{}\n", a);
Main3PrintA ==
    /\ pc = "main3_a" /\ res # Thrown
    /\ stdout' = Append(stdout, str(res))
    /\ pc' = "main3_a_printed"
    /\ UNCHANGED <<expr, res, res2, liketerm, coeffs, args, ords>>

\* auto b = symb::func("diff")(a, x);
Main3Diff ==
    /\ pc = "main3_a_printed"
    /\ res2' = func("diff", <<res, args[2]>>)
    /\ stdout' = stdout \o automatic_simplify_output(Function("diff", <<res, args[2]>>))
    /\ pc' = "main3_b"
    /\ UNCHANGED <<expr, res, liketerm, coeffs, args, ords>>

\* fmt::print("{}\n", b);
Main3PrintB ==
    /\ pc = "main3_b" /\ res2 # Thrown
    /\ stdout' = Append(stdout, str(res2))
    /\ pc' = "main3_done"
    /\ UNCHANGED <<expr, res, res2, liketerm, coeffs, args, ords>>

\* simplify_fraction divides by the gcd: mpz_tdiv_q with the divisor 0,
\* which is the gcd of 0 and 0 only, ends the process (SIGFPE).
DividesByZero(n, d) == Gcd(n, d) = 0

\* A rational operation that leaves num n and denom d to simplify_fraction
\* and returns the outcome: it is kept in res and pc becomes done.
RationalReturns(n, d, done) ==
    /\ IF DividesByZero(n, d)
       THEN pc' = "aborted" /\ res' = res
       ELSE pc' = done /\ res' = simplify_fraction(n, d)
    /\ UNCHANGED <<expr, res2, liketerm, coeffs, args, ords, stdout>>

\* FieldOfFractions(num, denom), twice
RationalConstruct ==
    /\ pc = "rational"
    /\ IF \E i \in 1..2 : DividesByZero(coeffs[i][1], coeffs[i][2])
       THEN pc' = "aborted" /\ args' = args
       ELSE /\ pc' = "constructed"
            /\ args' = <<Frac(coeffs[1][1], coeffs[1][2]),
                         Frac(coeffs[2][1], coeffs[2][2])>>
    /\ UNCHANGED <<expr, res, res2, liketerm, coeffs, ords, stdout>>

\* operator+
RationalAdd ==
    /\ pc = "constructed"
    /\ RationalReturns(args[1][1] * args[2][2] + args[2][1] * args[1][2],
                       args[1][2] * args[2][2], "added")

\* operator-
RationalSub ==
    /\ pc = "constructed"
    /\ RationalReturns(args[1][1] * args[2][2] - args[2][1] * args[1][2],
                       args[1][2] * args[2][2], "subtracted")

\* operator*
RationalMul ==
    /\ pc = "constructed"
    /\ RationalReturns(args[1][1] * args[2][1], args[1][2] * args[2][2],
                       "multiplied")

\* operator/
RationalDiv ==
    /\ pc = "constructed"
    /\ RationalReturns(args[1][1] * args[2][2], args[1][2] * args[2][1],
                       "divided")

\* math::pow(FieldOfFractions, FieldOfFractions): an exponent that is not
\* integer-valued ends the call with an exception.
RationalPow ==
    /\ pc = "constructed"
    /\ IF ~FracIsInteger(args[2])
       THEN /\ pc' = "thrown" /\ res' = res
            /\ UNCHANGED <<expr, res2, liketerm, coeffs, args, ords, stdout>>
       ELSE IF args[2][1] < 0
       THEN RationalReturns(MPiPow(args[1][2], -args[2][1]),
                            MPiPow(args[1][1], -args[2][1]), "raised")
       ELSE RationalReturns(MPiPow(args[1][1], args[2][1]),
                            MPiPow(args[1][2], args[2][1]), "raised")

\* fmt::print("{}\n", e) for a tree e that was not simplified
PrintTree ==
    /\ pc = "print"
    /\ stdout' = Append(stdout, str(expr))
    /\ pc' = "printed"
    /\ UNCHANGED <<expr, res, res2, liketerm, coeffs, args, ords>>

Next == Simplify \/ SimplifyAgain

NextLike == Simplify

NextCmp == Compare

NextDiff == Simplify

\* args[1] op args[2] for one of the operators and one of the forms of the
\* operands, which ords records; mpz_tdiv_q, mpz_tdiv_r and mpz_tdiv_r_ui
\* end the process when the divisor is 0.
ApplyMPiOperator ==
    /\ pc = "mpi"
    /\ \E form \in {"MPi_MPi", "MPi_T", "T_MPi"}, op \in {"+", "-", "*", "/", "%"} :
            /\ ords' = <<form, op>>
            /\ IF op \in {"/", "%"} /\ args[2] = 0
               THEN pc' = "aborted" /\ res' = res
               ELSE /\ pc' = "computed"
                    /\ res' = MPiOperator(form, op, args[1], args[2])
    /\ UNCHANGED <<expr, res2, liketerm, coeffs, args, stdout>>

NextMPi == ApplyMPiOperator

\* The next call is made: the calls it makes itself come before the calls
\* that were waiting.
Call ==
    /\ pc = "calling" /\ args # <<>>
    /\ args' = direct_calls(Head(args)) \o Tail(args)
    /\ ords' = <<1 - ords[1]>>
    /\ UNCHANGED <<expr, res, res2, pc, liketerm, coeffs, stdout>>

\* No call is left: automatic_simplify returns, or ends with the exception
\* of one of its calls.
Return ==
    /\ pc = "calling" /\ args = <<>>
    /\ res' = automatic_simplify(expr)
    /\ stdout' = stdout \o automatic_simplify_output(expr)
    /\ pc' = "returned"
    /\ ords' = <<1 - ords[1]>>
    /\ UNCHANGED <<expr, res2, liketerm, coeffs, args>>

NextCalls == Call \/ Return

NextMain1 == Main1Add \/ Main1Mul \/ Main1PrintA \/ Main1PowDiv \/ Main1PrintB

NextPrint == PrintTree

NextFrac ==
    \/ RationalConstruct
    \/ RationalAdd \/ RationalSub \/ RationalMul \/ RationalDiv \/ RationalPow

NextMain3 == Main3Pow \/ Main3PrintA \/ Main3Diff \/ Main3PrintB

Spec == Init /\ [][Next]_vars

SpecLike == InitLike /\ [][NextLike]_vars

SpecCmp == InitCmp /\ [][NextCmp]_vars

SpecCmp3 == InitCmp3 /\ [][NextCmp]_vars

SpecDiff == InitDiff /\ [][NextDiff]_vars

SpecMain1 == InitMain1 /\ [][NextMain1]_vars

SpecMain3 == InitMain3 /\ [][NextMain3]_vars

SpecFrac == InitFrac /\ [][NextFrac]_vars

SpecMPi == InitMPi /\ [][NextMPi]_vars

SpecCalls == InitCalls /\ [][NextCalls]_vars

\* A step of the running simplifier, told by the count of steps alone
Proceeds == pc = "calling" /\ ords' = <<1 - ords[1]>>

\* A running program makes its next call or returns: it does not stop
\* between two calls.
FairSpecCalls == SpecCalls /\ WF_ords(Proceeds)

SpecPrint == InitPrint /\ [][NextPrint]_vars

(***************************************************************************)
(* Properties of a returned tree                                           *)
(***************************************************************************)
Range(cs) == {cs[i] : i \in 1..Len(cs)}

\* Every node of the tree e, e included
RECURSIVE Nodes(_)
Nodes(e) == {e} \cup UNION {Nodes(e.children[i]) : i \in 1..Len(e.children)}

\* The Sum and Product nodes of e
SumNodes(e) == {n \in Nodes(e) : n.kind = "SumOp"}

ProductNodes(e) == {n \in Nodes(e) : n.kind = "ProdOp"}

\* A call of automatic_simplify has returned the tree res
Returned == pc \in {"simplified", "again"} /\ res # Thrown

StrictlyIncreasing(cs) ==
    \A i \in 1..(Len(cs) - 1) : cmp_expression(cs[i], cs[i + 1]) < 0

NumberChildren(n) == {i \in 1..Len(n.children) : n.children[i].kind = "Number"}

\* The sum of the coefficients of a sum of like terms
RECURSIVE TotalFrom(_, _)
TotalFrom(cs, i) ==
    IF i > Len(cs) THEN <<0, 1>> ELSE FracAdd(cs[i][2], TotalFrom(cs, i + 1))

Total(cs) == TotalFrom(cs, 1)

\* The canonical tree of the Number c times the canonical term t: c joins
\* the Number that leads a Product, and a factor of one is left out.
CoeffTimes(c, t) ==
    IF t.kind = "ProdOp" /\ t.children[1].kind = "Number"
    THEN LET m == FracMul(c, t.children[1].value)
             rest == Tail(t.children)
         IN  IF m # <<1, 1>> THEN Product(<<Number(m)>> \o rest)
             ELSE IF Len(rest) = 1 THEN rest[1] ELSE Product(rest)
    ELSE IF c = <<1, 1>> THEN t
    ELSE IF t.kind = "ProdOp" THEN Product(<<Number(c)>> \o t.children)
    ELSE Product(<<Number(c), t>>)

\* The factors of the term t
Factors(t) == IF t.kind = "ProdOp" THEN Range(t.children) ELSE {t}

\* t is no Sum, and no factor of t is a Number or a power of a Number
PlainTerm(t) ==
    /\ t.kind \notin {"Number", "SumOp"}
    /\ \A f \in Factors(t) :
          /\ f.kind # "Number"
          /\ ~(f.kind = "PowOp" /\ f.children[1].kind = "Number")

\* The assignments of the rationals 0, 2 and -1/2 to the symbols of the
\* inputs
Envs == [{"x", "y"} -> {Frac(0, 1), Frac(2, 1), Frac(-1, 2)}]

\* The tree e is built from Numbers, Symbols, Sums, Products and Powers whose
\* exponent is an integer Number
IntegerPowers(e) ==
    \A n \in Nodes(e) :
        /\ n.kind \in {"Number", "Symbol", "SumOp", "ProdOp", "PowOp"}
        /\ n.kind = "PowOp" => is_integral(n.children[2])

\* The rational that the tree e stands for under the assignment env, in a
\* sequence of length one; the empty sequence when e has no value: a
\* Function, Undefined, an exponent that is not an integer, or 0 raised to
\* a negative power.  The empty Sum is 0 and the empty Product is 1.
RECURSIVE Eval(_, _)
EvalFrom(e, env, i) ==
    LET RECURSIVE go(_)
        go(j) ==
            IF j > Len(e.children)
            THEN IF e.kind = "SumOp" THEN <<Frac(0, 1)>> ELSE <<Frac(1, 1)>>
            ELSE LET v == Eval(e.children[j], env)
                     w == go(j + 1)
                 IN  IF v = <<>> \/ w = <<>> THEN <<>>
                     ELSE IF e.kind = "SumOp" THEN <<FracAdd(v[1], w[1])>>
                     ELSE <<FracMul(v[1], w[1])>>
    IN  go(i)

Eval(e, env) ==
    CASE e.kind = "Number" -> <<e.value>>
      [] e.kind = "Symbol" -> <<env[e.name]>>
      [] e.kind \in {"SumOp", "ProdOp"} -> EvalFrom(e, env, 1)
      [] e.kind = "PowOp" ->
            LET b == Eval(e.children[1], env)
                x == Eval(e.children[2], env)
            IN  IF b = <<>> \/ x = <<>> THEN <<>>
                ELSE IF ~FracIsInteger(x[1]) THEN <<>>
                ELSE IF b[1][1] = 0 /\ x[1][1] < 0 THEN <<>>
                ELSE <<FracPowInt(b[1], x[1][1])>>
      [] OTHER -> <<>>

\* The texts of the children of the Product e from child i on, braced as
\* Product::str braces them, joined by "*"
RECURSIVE FactorsJoined(_, _)
FactorsJoined(e, i) ==
    IF i > Len(e.children) THEN <<>>
    ELSE IF i = Len(e.children) THEN maybe_brace(e, e.children[i])
    ELSE maybe_brace(e, e.children[i]) \o <<"*">> \o FactorsJoined(e, i + 1)

\* A Product of Number(-1) and at least one more factor
NegatedProduct(e) ==
    /\ e.kind = "ProdOp" /\ Len(e.children) >= 2
    /\ e.children[1] = Int2Num(-1)

\* The rational q is in lowest terms with a positive denominator
Normalized(q) == q[2] > 0 /\ Gcd(q[1], q[2]) = 1

(***************************************************************************)
(* C1 - C10                                                                *)
(***************************************************************************)
\* C1: automatic_simplify is idempotent: simplifying the tree it returned
\* returns that tree again, structurally identical.
C1_Idempotent == pc = "again" => res2 = res

\* C2: cmp_expression answers 'equal' only for structurally identical trees.
C2_EqualOnlyIfIdentical ==
    pc = "compared" => (ords[1, 2] = 0 => args[1] = args[2])

\* C3: a Product that has Number(0) among its children, nested Products
\* flattened, simplifies to Number(0).
C3_AbsorbingZero ==
    (/\ Returned
     /\ expr.kind = "ProdOp"
     /\ \E c \in Range(assoc_expand("ProdOp", expr.children)) : is_zero(c))
    => res = Int2Num(0)

\* C4: a Sum of like terms c1*t, ..., ck*t whose coefficients add up to zero
\* simplifies to Number(0); t + (-1)*t is one.
C4_Cancellation ==
    (/\ Returned
     /\ liketerm # NoExpr
     /\ Len(coeffs) >= 2
     /\ \A i \in 1..Len(coeffs) : coeffs[i][2] # <<0, 1>>
     /\ Total(coeffs) = <<0, 1>>)
    => res = Int2Num(0)

\* C5: a Sum of like terms c1*t, ..., ck*t, t any canonical term that is no
\* Number, whose coefficients add up to c # 0 simplifies to c*t.
C5_LikeTermCollection ==
    (Returned /\ liketerm # NoExpr /\ Total(coeffs) # <<0, 1>>)
    => res = CoeffTimes(Total(coeffs), liketerm)

\* C5, amended: the same for a term t that is no Sum and has no factor that
\* is a Number or a power of a Number.
C5_LikeTermCollectionPlain ==
    (/\ Returned
     /\ liketerm # NoExpr
     /\ PlainTerm(liketerm)
     /\ Total(coeffs) # <<0, 1>>)
    => res = CoeffTimes(Total(coeffs), liketerm)

\* C5's case: 2*x + 2*x + x has been collected into 5*x
C5_Witness ==
    /\ pc = "simplified"
    /\ liketerm = Symbol("x")
    /\ coeffs = <<<<"times", <<2, 1>>>>, <<"times", <<2, 1>>>>, <<"bare", <<1, 1>>>>>>
    /\ res = Product(<<Int2Num(5), Symbol("x")>>)

\* C6: the children of every Sum and Product node of a returned tree are
\* strictly increasing under cmp_expression.
C6_Ordered ==
    Returned => \A n \in SumNodes(res) \cup ProductNodes(res) :
                    StrictlyIncreasing(n.children)

\* C7: in a returned tree no Sum node has a Sum child and no Product node
\* has a Product child.
C7_Flat ==
    Returned => /\ \A n \in SumNodes(res) : \A c \in Range(n.children) :
                      c.kind # "SumOp"
                /\ \A n \in ProductNodes(res) : \A c \in Range(n.children) :
                      c.kind # "ProdOp"

\* C8: in a returned tree every Sum has at most one Number child, which is
\* not 0, and every Product has at most one Number child, which is its first
\* child and neither 0 nor 1.
C8_NumberChildren ==
    Returned =>
        /\ \A n \in SumNodes(res) :
              /\ Cardinality(NumberChildren(n)) <= 1
              /\ \A i \in NumberChildren(n) : ~is_zero(n.children[i])
        /\ \A n \in ProductNodes(res) :
              /\ Cardinality(NumberChildren(n)) <= 1
              /\ \A i \in NumberChildren(n) :
                    i = 1 /\ ~is_zero(n.children[i]) /\ ~is_one(n.children[i])

\* C9: in a returned tree no two children of a Sum have equal terms and no
\* two children of a Product have equal bases.
C9_Unique ==
    Returned =>
        /\ \A n \in SumNodes(res) : \A i, j \in 1..Len(n.children) :
              i # j => cmp_expression(term(n.children[i]), term(n.children[j])) # 0
        /\ \A n \in ProductNodes(res) : \A i, j \in 1..Len(n.children) :
              i # j => cmp_base(n.children[i], n.children[j]) # 0

\* C10: a returned tree has no Sum or Product node with fewer than two
\* children: the empty Sum gives 0, the empty Product gives 1, a Sum or
\* Product of one child gives that child, simplified.
C10_Collapse ==
    Returned =>
        /\ \A n \in SumNodes(res) \cup ProductNodes(res) : Len(n.children) >= 2
        /\ expr = Sum(<<>>) => res = Int2Num(0)
        /\ expr = Product(<<>>) => res = Int2Num(1)
        /\ (expr.kind \in {"SumOp", "ProdOp"} /\ Len(expr.children) = 1)
              => res = automatic_simplify(expr.children[1])

\* C10's case: the merge pass left x + x with the single child 2*x, and
\* that child was returned.
C10_Witness ==
    /\ pc = "simplified"
    /\ expr = Sum(<<Symbol("x"), Symbol("x")>>)
    /\ res = Product(<<Int2Num(2), Symbol("x")>>)

(***************************************************************************)
(* C11 - C20                                                               *)
(***************************************************************************)
\* C11: cmp_expression answers every pair with exactly one of less, equal,
\* greater, and its answer to (a, b) is the reverse of its answer to (b, a).
C11_TotalAndReversed ==
    pc = "compared" =>
        /\ ords[1, 2] \in {-1, 0, 1}
        /\ ords[2, 1] \in {-1, 0, 1}
        /\ ords[1, 2] = -ords[2, 1]

\* C11's case: a Symbol against a Sum, which cmp_expression answers by
\* swapping the arguments and reversing the answer.
C11_Witness ==
    /\ pc = "compared"
    /\ args[1].kind = "Symbol" /\ args[2].kind = "SumOp"
    /\ Len(args[2].children) >= 1
    /\ ords[1, 2] = 1 /\ ords[2, 1] = -1

\* C12: cmp_expression is transitive: when a is less than or equal to b and
\* b is less than or equal to c, a is less than or equal to c, and a equals
\* c only when a equals b and b equals c.
C12_Transitive ==
    (pc = "compared" /\ Len(args) = 3) =>
        ((ords[1, 2] <= 0 /\ ords[2, 3] <= 0) =>
            /\ ords[1, 3] <= 0
            /\ ords[1, 3] = 0 => (ords[1, 2] = 0 /\ ords[2, 3] = 0))

\* C13: a power whose base is a canonical Power(b, e) and whose exponent is
\* an integer n other than 0 and 1 simplifies to the power of b to the
\* simplified product e*n: the inner base stays the base and the exponents
\* are multiplied, as (x^2)^3 gives x^6.
C13_PowerOfPower ==
    (/\ pc = "simplified"
     /\ expr.kind = "PowOp"
     /\ expr.children[1].kind = "PowOp"
     /\ automatic_simplify(expr.children[1]) = expr.children[1]
     /\ is_integral(expr.children[2])
     /\ ~is_zero(expr.children[2]) /\ ~is_one(expr.children[2]))
    => res = automatic_simplify_power(
                Power(expr.children[1].children[1],
                      automatic_simplify_product(
                          Product(<<expr.children[1].children[2], expr.children[2]>>))))

\* C14 as stated: a Number raised to an integer-valued Number simplifies to
\* a Number, whatever the base.
C14_IntegerPowerClosure ==
    (/\ pc = "simplified"
     /\ expr.kind = "PowOp"
     /\ is_number(expr.children[1])
     /\ is_integral(expr.children[2]))
    => res.kind = "Number"

\* C14 as the code has it: a Number raised to an integer-valued Number
\* simplifies to a Number, except that 0 raised to a negative integer gives
\* Undefined.
C14_IntegerPowerClosureNonzero ==
    (/\ pc = "simplified"
     /\ expr.kind = "PowOp"
     /\ is_number(expr.children[1])
     /\ is_integral(expr.children[2]))
    => IF is_zero(expr.children[1]) /\ FracCmp(expr.children[2].value, Frac(0, 1)) < 0
       THEN res = Undefined
       ELSE res.kind = "Number"

\* C14's case: 1/2 raised to -1 was evaluated to the Number 2.
C14_Witness ==
    /\ pc = "simplified"
    /\ expr = Power(Number(Frac(1, 2)), Int2Num(-1))
    /\ res = Int2Num(2)

\* C15: a power of base 0 simplifies to 0 when its simplified exponent is a
\* positive Number, to 1 when it is 0, to Undefined when it is a negative
\* Number, and stays the Power of 0 when it is not a Number; a power of
\* base 1 simplifies to 1 whatever the exponent.
C15_ZeroAndOneBase ==
    (pc = "simplified" /\ expr.kind = "PowOp") =>
        LET b == expr.children[1]
            e == automatic_simplify(expr.children[2])
        IN  /\ is_zero(b) =>
                  res = IF ~is_number(e) THEN Power(b, e)
                        ELSE IF FracCmp(e.value, Frac(0, 1)) > 0 THEN Int2Num(0)
                        ELSE IF is_zero(e) THEN Int2Num(1)
                        ELSE Undefined
            /\ is_one(b) => res = Int2Num(1)

\* C15's case: 0 raised to -1 gave Undefined.
C15_Witness ==
    /\ pc = "simplified"
    /\ expr = Power(Int2Num(0), Int2Num(-1))
    /\ res = Undefined

\* C16: a diff call that does not have exactly two arguments, or whose
\* second argument is not a Symbol, simplifies to Undefined; nothing is
\* raised.
C16_MalformedDiff ==
    (/\ pc = "simplified"
     /\ expr.kind = "Function" /\ expr.name = "diff"
     /\ \/ Len(expr.children) # 2
        \/ automatic_simplify(expr.children[2]).kind # "Symbol")
    => res = Undefined

\* C17: diff(e, v) for a canonical Power e whose exponent mentions the
\* Symbol v simplifies to the diff call itself, unevaluated; nothing is
\* raised.
C17_DiffVariableExponent ==
    (/\ pc = "simplified"
     /\ expr.kind = "Function" /\ expr.name = "diff" /\ Len(expr.children) = 2
     /\ expr.children[1].kind = "PowOp"
     /\ automatic_simplify(expr.children[1]) = expr.children[1]
     /\ expr.children[2].kind = "Symbol"
     /\ ~is_constant(expr.children[1].children[2], expr.children[2].name))
    => res = Function("diff", <<expr.children[1], expr.children[2]>>)

\* The derivatives of the children of the Sum s by var, each evaluated
DiffEach(s, var) ==
    [i \in 1..Len(s.children) |->
        automatic_simplify_function(Function("diff", <<s.children[i], var>>))]

\* C18: diff(s, v) for a canonical Sum s and a Symbol v simplifies to the
\* simplified sum of the evaluated derivatives of the children of s, so
\* that no diff of a Symbol or of a Number is left in it: diff(x + y, x)
\* is 1.
C18_DiffOfSum ==
    (/\ pc = "simplified"
     /\ expr.kind = "Function" /\ expr.name = "diff" /\ Len(expr.children) = 2
     /\ expr.children[1].kind = "SumOp"
     /\ automatic_simplify(expr.children[1]) = expr.children[1]
     /\ expr.children[2].kind = "Symbol"
     /\ ~AnyThrown(DiffEach(expr.children[1], expr.children[2])))
    => /\ res = automatic_simplify_sum(
                    Sum(DiffEach(expr.children[1], expr.children[2])))
       /\ \A n \in Nodes(res) :
              (n.kind = "Function" /\ n.name = "diff")
                  => n.children[1].kind \notin {"Symbol", "Number"}

\* C19: in the first program with the symbols x, y, z and the numbers 2, 1,
\* 2, a is the Product of Sum(x, y) and z and prints as (x+y)*z, and b is
\* the Product of 1/2, z^2 and (x+y)^2, in this order, and prints as
\* 1/2*z^2*(x+y)^2.
C19_Scenario1 ==
    (/\ pc = "main1_done"
     /\ args = <<Symbol("x"), Symbol("y"), Symbol("z"),
                 Int2Num(2), Int2Num(1), Int2Num(2)>>)
    => /\ res = Product(<<Sum(<<Symbol("x"), Symbol("y")>>), Symbol("z")>>)
       /\ stdout[1] = <<"(", "x", "+", "y", ")", "*", "z">>
       /\ res2 = Product(<<Number(Frac(1, 2)),
                           Power(Symbol("z"), Int2Num(2)),
                           Power(Sum(<<Symbol("x"), Symbol("y")>>), Int2Num(2))>>)
       /\ stdout[2] = <<"1", "/", "2", "*", "z", "^", "2", "*",
                        "(", "x", "+", "y", ")", "^", "2">>

\* C20: in the second program with f(x), the variable x and the exponent
\* 101, a stays the Power of f(x) to 101, and b is the Product of 101,
\* f(x)^100 and diff(f(x), x), in this order, and prints as
\* 101*f(x)^100*diff(f(x), x).
C20_Scenario3 ==
    (/\ pc = "main3_done"
     /\ args = <<Symbol("x"), Symbol("x"), Int2Num(101)>>)
    => /\ res = Power(Function("f", <<Symbol("x")>>), Int2Num(101))
       /\ res2 = Product(<<Int2Num(101),
                           Power(Function("f", <<Symbol("x")>>), Int2Num(100)),
                           Function("diff", <<Function("f", <<Symbol("x")>>),
                                              Symbol("x")>>)>>)
       /\ stdout[2] = <<"1", "0", "1", "*", "f", "(", "x", ")", "^", "1", "0", "0",
                        "*", "diff", "(", "f", "(", "x", ")", ",", " ", "x", ")">>

(***************************************************************************)
(* C21 - C30                                                               *)
(***************************************************************************)
\* C21: every rational returned by the constructor and by +, -, *, / and
\* pow is in lowest terms with a positive denominator.
C21_RationalNormalized ==
    /\ pc = "constructed" => (Normalized(args[1]) /\ Normalized(args[2]))
    /\ pc \in {"added", "subtracted", "multiplied", "divided", "raised"}
          => Normalized(res)

\* C22: a Product of Number(-1) and the factors y1, ..., yk prints as "-"
\* followed at once by the factors joined by "*", as Product(-1, x) prints
\* -x; and a Sum appends such a child without a "+" before it.
C22_NegatedProduct ==
    pc = "printed" =>
        /\ NegatedProduct(expr) =>
              stdout[1] = <<"-">> \o FactorsJoined(expr, 2)
        /\ (/\ expr.kind = "SumOp" /\ Len(expr.children) = 2
            /\ str(expr.children[1]) # <<>>
            /\ NegatedProduct(expr.children[2]))
              => stdout[1] = maybe_brace(expr, expr.children[1])
                                \o <<"-">> \o FactorsJoined(expr.children[2], 2)


\* C23: a call of simplify writes nothing to the standard output, whatever
\* the expression, the diff of a Product included, and changes nothing but
\* the tree it returns.
C23_NoOutput ==
    pc = "simplified" => stdout = <<>>


\* C24: for big integers a and b with b not 0, a / b is the quotient rounded
\* toward zero, a % b is zero or has the sign of a, |a % b| < |b| and
\* a = (a / b) * b + a % b; the same when b is a machine integer, the
\* negative ones included.
C24_TruncatedDivision ==
    (pc = "computed" /\ ords[1] \in {"MPi_MPi", "MPi_T"} /\ ords[2] \in {"/", "%"}) =>
        LET a == args[1]
            b == args[2]
            q == IF ords[2] = "/" THEN res ELSE MPiOperator(ords[1], "/", a, b)
            r == IF ords[2] = "%" THEN res ELSE MPiOperator(ords[1], "%", a, b)
        IN  /\ Abs(q) * Abs(b) <= Abs(a) /\ Abs(a) < (Abs(q) + 1) * Abs(b)
            /\ q = 0 \/ Sign(q) = Sign(a) * Sign(b)
            /\ r = 0 \/ Sign(r) = Sign(a)
            /\ Abs(r) < Abs(b)
            /\ a = q * b + r

\* C26: for a machine integer n, a big integer B and each of the operators
\* +, -, *, / and %, n op B equals MPi(n) op B and B op n equals
\* B op MPi(n); in particular n - B is n minus B.
C26_MixedOperands ==
    pc = "computed" =>
        /\ res = MPiOperator("MPi_MPi", ords[2], args[1], args[2])
        /\ (ords = <<"T_MPi", "-">>) => res = args[1] - args[2]

\* C25: the rational pow fails with an error for an exponent that is not an
\* integer, and simplify does not run into it: a Power of two Numbers whose
\* exponent is not an integer is returned without an exception, and
\* unchanged when its base is neither 0 nor 1; no expression without a diff
\* call makes simplify end with an exception.
C25_DomainErrorGuard ==
    /\ (/\ pc = "simplified" /\ expr.kind = "PowOp"
        /\ is_number(expr.children[1]) /\ is_number(expr.children[2])
        /\ ~FracIsInteger(expr.children[2].value)) =>
           /\ FracPow(expr.children[1].value, expr.children[2].value) = <<>>
           /\ res # Thrown
           /\ (~is_zero(expr.children[1]) /\ ~is_one(expr.children[1])) => res = expr
    /\ (/\ pc = "simplified"
        /\ \A n \in Nodes(expr) : ~(n.kind = "Function" /\ n.name = "diff")) =>
           res # Thrown

C25_Witness ==
    /\ pc = "simplified"
    /\ expr = Power(Int2Num(2), Number(Frac(1, 2)))
    /\ FracPow(expr.children[1].value, expr.children[2].value) = <<>>
    /\ res = expr

\* C27: simplify keeps the value: for a tree built from Numbers, Symbols,
\* Sums, Products and Powers with integer Number exponents, and every
\* assignment of rationals to the symbols under which the tree has a value,
\* the simplified tree has the same value.
C27_ValuePreserved ==
    (pc = "simplified" /\ IntegerPowers(expr)) =>
        \A env \in Envs :
            Eval(expr, env) # <<>> =>
                (res # Thrown /\ Eval(res, env) = Eval(expr, env))

\* C28: merging joins identical terms and bases only: the Sum of two
\* different trees that are Symbols or Functions, as x and f(x), simplifies
\* to the Sum of the two, and their Product to the Product of the two.
C28_MergeOnlyIdentical ==
    (/\ pc = "simplified"
     /\ expr.kind \in {"SumOp", "ProdOp"} /\ Len(expr.children) = 2
     /\ \A i \in 1..2 :
            /\ expr.children[i].kind \in {"Symbol", "Function"}
            /\ automatic_simplify(expr.children[i]) = expr.children[i]
     /\ expr.children[1] # expr.children[2]) =>
        /\ res.kind = expr.kind
        /\ Len(res.children) = 2
        /\ Range(res.children) = Range(expr.children)

\* C29: the derivative of a constant: for a Symbol v and a tree e built from
\* Numbers, Symbols other than v, Sums, Products and Powers, simplifying
\* diff(e, v) returns Number(0).
C29_DiffOfConstant ==
    (/\ pc = "simplified"
     /\ expr.kind = "Function" /\ expr.name = "diff" /\ Len(expr.children) = 2
     /\ expr.children[2].kind = "Symbol"
     /\ \A n \in Nodes(expr.children[1]) :
            /\ n.kind \in {"Number", "Symbol", "SumOp", "ProdOp", "PowOp"}
            /\ n.kind = "Symbol" => n.name # expr.children[2].name) =>
        res = Int2Num(0)

\* C30: termination: the mutually recursive calls that simplify(x) starts
\* all return: every run of the simplifier reaches the return of
\* automatic_simplify.
C30_Terminates == <>(pc = "returned")

C30_Witness ==
    /\ pc = "returned" /\ args = <<>> /\ res # Thrown
    /\ expr.kind = "Function" /\ expr.name = "diff"
    /\ expr.children[1].kind = "ProdOp" /\ Len(expr.children[1].children) = 2
    /\ \A i \in 1..2 : expr.children[1].children[i].kind = "Symbol"
    /\ expr.children[2].kind = "Symbol"

=============================================================================
